---- MODULE Spec2Model ----
(***************************************************************************)
(* Model of gunpowder's torch Train node (gunpowder/torch/nodes/train_v2). *)
(* One node is constructed (__init__), started (start) and then driven by  *)
(* train_step(batch, request) calls.  Tensors and arrays are abstract      *)
(* values that record where they come from; the model, the loss and the    *)
(* optimizer are opaque collaborators whose calls are recorded.            *)
(***************************************************************************)
EXTENDS Integers, Sequences, FiniteSets, TLC

VARIABLES
    cfg,                  \* the node's construction-time fields (self.inputs, self.outputs, ...)
    started,              \* start() has run on the current node
    iteration,            \* self.iteration
    intermediate_layers,  \* self.intermediate_layers: layer name -> captured tensor
    model_state,          \* self.model.state_dict()
    optimizer_state,      \* self.optimizer.state_dict()
    opt_grads,            \* calls whose backward pass is accumulated in the parameters' .grad
    files,                \* the checkpoint folder: file name -> saved record
    calls,                \* number of train_step calls made so far (identifies a call)
    batch0,               \* the batch handed to the last train_step, as it was on entry
    request,              \* the request handed to the last train_step
    batch,                \* that batch when train_step returned or raised
    args,                 \* the arguments the current node was constructed with
    wraps,                \* times self.model and self.optimizer went through accelerator.prepare
    step                  \* what the last train_step did (result, events, calls it made)

vars == <<cfg, started, iteration, intermediate_layers, model_state, optimizer_state,
          opt_grads, files, calls, batch0, request, batch, args, wraps, step>>

(***************************************************************************)
(* Bounds of the model.                                                    *)
(***************************************************************************)
MaxCalls == 2      \* train_step calls explored when the bindings vary
MaxIter == 7       \* train_step calls explored when the cadences vary
MaxEvery == 3      \* save_every and log_every range over 1..MaxEvery

(***************************************************************************)
(* Keys of the binding maps: Python ints, strings, and (invalid) floats.   *)
(***************************************************************************)
I(i) == [kind |-> "int", idx |-> i, name |-> ""]
S(s) == [kind |-> "str", idx |-> 0, name |-> s]
F(s) == [kind |-> "float", idx |-> 0, name |-> s]    \* a non-integral float, e.g. 1.5

IsInt(k) == k.kind = "int"
IsStr(k) == k.kind = "str"

(***************************************************************************)
(* Python dicts keep insertion order: a dict is a sequence of items        *)
(* [k |-> key, v |-> value] with distinct keys.                            *)
(***************************************************************************)
Item(key, val) == [k |-> key, v |-> val]
Keys(d) == {d[i].k : i \in DOMAIN d}
Values(d) == {d[i].v : i \in DOMAIN d}
Has(d, key) == key \in Keys(d)
Get(d, key) == d[CHOOSE i \in DOMAIN d : d[i].k = key].v
Put(d, key, val) ==
    IF Has(d, key)
    THEN [i \in DOMAIN d |-> IF d[i].k = key THEN Item(key, val) ELSE d[i]]
    ELSE Append(d, Item(key, val))
Pop(d, key) == SelectSeq(d, LAMBDA it : it.k # key)

RECURSIVE Update(_, _)
Update(d, e) == IF e = <<>> THEN d ELSE Update(Put(d, Head(e).k, Head(e).v), Tail(e))

\* the function a dict denotes when only lookups matter (later items win)
RECURSIVE AsFunction(_)
AsFunction(d) ==
    IF d = <<>> THEN <<>>
    ELSE LET n == Len(d)
             rest == AsFunction(SubSeq(d, 1, n - 1))
         IN  [x \in DOMAIN rest \cup {d[n].k} |-> IF x = d[n].k THEN d[n].v ELSE rest[x]]

(***************************************************************************)
(* Arrays and tensors.  A value records its form (numpy array on the host  *)
(* or torch tensor on the device), where it comes from, and the call that  *)
(* produced it.                                                            *)
(***************************************************************************)
Value(form, origin, idx, name, it, grad) ==
    [form |-> form, origin |-> origin, idx |-> idx, name |-> name, it |-> it, grad |-> grad]
None == Value("none", "none", 0, "", 0, FALSE)

BatchData(key) == Value("np", "batch", 0, key, 0, FALSE)      \* an upstream array
ModelOutput(i, c) == Value("tensor", "out", i, "", c, FALSE)  \* model_outputs[i] of call c
LayerOutput(n, c) == Value("tensor", "layer", 0, n, c, FALSE) \* output of sub-module n in call c
ModelAttr(n) == Value("tensor", "attr", 0, n, 0, FALSE)       \* getattr(self.model, n)
LossValue(c) == Value("tensor", "loss", 0, "", c, FALSE)      \* what self.loss returned in call c

\* torch.as_tensor(v, device=...)
AsTensor(v) == [v EXCEPT !.form = "tensor"]
\* t.cpu().detach().numpy()
ToNumpy(t) == [t EXCEPT !.form = "np"]
\* t.grad after backward, for a tensor that retained its gradient
GradOf(t) == [t EXCEPT !.grad = TRUE]

(***************************************************************************)
(* Array specs, batches and requests.  A batch holds arrays (ArrayKey ->   *)
(* [data, spec]) and the loss and iteration fields; a request maps the     *)
(* requested ArrayKeys to a spec with the wanted region of interest.       *)
(***************************************************************************)
ArraySpec(roi, voxel_size) == [roi |-> roi, voxel_size |-> voxel_size]
Array(data, spec) == [data |-> data, spec |-> spec]
UpstreamArray(key) == Array(BatchData(key), ArraySpec("upstream", "upstream"))
Batch(keys) == [arrays |-> [key \in keys |-> UpstreamArray(key)], loss |-> None, iteration |-> 0]
Request(keys, roi) == [key \in keys |-> ArraySpec(roi, "requested")]

\* self.spec[array_key]: the spec this node declares for an array it provides
DeclaredSpec(array_key) == ArraySpec("declared", "declared")

NoBatch == Batch({})
NoRequest == Request({}, "none")

(***************************************************************************)
(* __init__: loss inputs that no model output provides are folded into     *)
(* inputs, so that upstream is asked for them.                             *)
(***************************************************************************)
FoldInputs(inputs, loss_inputs, outputs) ==
    Update(inputs, SelectSeq(loss_inputs, LAMBDA it : it.v \notin Values(outputs)))

\* __init__: which metric sink the node gets.  An attribute is "unset" when no
\* branch assigns it, "none" when it is assigned None.
Sinks(use_wandb, has_log_dir, wandb_installed, tensorboardX_installed, log_every) ==
    IF use_wandb
    THEN IF wandb_installed /\ has_log_dir
         THEN [wandb_logger |-> "run", summary_writer |-> "unset", log_every |-> log_every]
         ELSE [wandb_logger |-> "none", summary_writer |-> "unset", log_every |-> 0]
    ELSE IF tensorboardX_installed /\ has_log_dir
         THEN [wandb_logger |-> "unset", summary_writer |-> "writer", log_every |-> log_every]
         ELSE [wandb_logger |-> "unset", summary_writer |-> "none", log_every |-> 0]

\* register_hooks: a forward hook on every sub-module named by a string key of outputs
HookedLayers(outputs) == {k.name : k \in {x \in Keys(outputs) : IsStr(x)}}

(***************************************************************************)
(* The binding resolver.                                                   *)
(***************************************************************************)
\* __collect_requested_outputs: ArrayKey -> output name, for the requested outputs
RECURSIVE CollectRequestedOutputs(_, _)
CollectRequestedOutputs(outputs, req) ==
    IF outputs = <<>> THEN <<>>
    ELSE LET n == Len(outputs)
             rest == CollectRequestedOutputs(SubSeq(outputs, 1, n - 1), req)
         IN  IF outputs[n].v \in DOMAIN req THEN Put(rest, outputs[n].v, outputs[n].k)
             ELSE rest

\* __collect_provided_arrays: name -> batch data, for the bound ArrayKeys the batch holds
\* (expect_missing_arrays only chooses the log level of the "missing" message).  Every
\* binding explored maps to an ArrayKey, so the branches for a bound numpy array, a
\* bound batch attribute name and an unknown value are not taken.
RECURSIVE CollectProvidedArrays(_, _, _)
CollectProvidedArrays(reference, b, expect_missing_arrays) ==
    IF reference = <<>> THEN <<>>
    ELSE LET n == Len(reference)
             rest == CollectProvidedArrays(SubSeq(reference, 1, n - 1), b, expect_missing_arrays)
         IN  IF reference[n].v \in DOMAIN b.arrays
             THEN Put(rest, reference[n].k, b.arrays[reference[n].v].data)
             ELSE rest

\* __collect_provided_inputs
CollectProvidedInputs(inputs, loss_inputs, b) ==
    CollectProvidedArrays(SelectSeq(inputs, LAMBDA it : ~Has(loss_inputs, it.k)), b, FALSE)

\* __collect_provided_loss_inputs
CollectProvidedLossInputs(loss_inputs, b) == CollectProvidedArrays(loss_inputs, b, TRUE)

\* {k: torch.as_tensor(v, device=...) for k, v in d.items()}
OnDevice(d) == [i \in DOMAIN d |-> Item(d[i].k, AsTensor(d[i].v))]

(***************************************************************************)
(* The forward pass.  The model is opaque: a call takes the arguments it   *)
(* is given, returns a single tensor, a tuple of tensors or something else *)
(* (ret), and runs some of its hooked sub-modules (fired), whose hooks     *)
(* store their output in the cache.                                        *)
(***************************************************************************)
Returned(type, len) == [type |-> type, len |-> len]

\* save_layer, for every hooked sub-module the forward pass of call c runs
SaveLayers(cache, fired, c) ==
    [n \in DOMAIN cache \cup fired |-> IF n \in fired THEN LayerOutput(n, c) ELSE cache[n]]

\* SupportedReturn without the else branch that raises
SupportedReturnAny(ret) == TRUE

\* is the return type one train_step accepts
SupportedReturn(ret) == ret.type \in {"tuple", "tensor"}

\* outputs = {i: model_outputs[i] ...} or {0: model_outputs}
IndexedOutputs(ret, c) ==
    IF ret.type = "tuple" THEN [k \in {I(i) : i \in 0 .. ret.len - 1} |-> ModelOutput(k.idx, c)]
    ELSE [k \in {I(0)} |-> ModelOutput(0, c)]

\* outputs.update(self.intermediate_layers)
MergeLayers(outs, cache) ==
    [k \in DOMAIN outs \cup {S(n) : n \in DOMAIN cache} |->
        IF IsStr(k) THEN cache[k.name] ELSE outs[k]]

\* flipped_outputs = {v: outputs[k] for k, v in self.outputs.items()}; needs every k in outs
FlippedOutputs(outputs, outs) ==
    AsFunction([i \in DOMAIN outputs |-> Item(outputs[i].v, outs[outputs[i].k])])

\* OverlayLossInputs with the batch's array preferred to the model's output
OverlayLossInputsBatchFirst(loss_inputs, flipped, device_loss_inputs) ==
    [i \in DOMAIN loss_inputs |->
        Item(loss_inputs[i].k,
             IF Has(device_loss_inputs, loss_inputs[i].k)
             THEN Get(device_loss_inputs, loss_inputs[i].k)
             ELSE IF loss_inputs[i].v \in DOMAIN flipped THEN flipped[loss_inputs[i].v]
                  ELSE None)]

\* device_loss_inputs = {k: flipped_outputs.get(v, device_loss_inputs.get(k)) ...}
OverlayLossInputs(loss_inputs, flipped, device_loss_inputs) ==
    [i \in DOMAIN loss_inputs |->
        Item(loss_inputs[i].k,
             IF loss_inputs[i].v \in DOMAIN flipped THEN flipped[loss_inputs[i].v]
             ELSE IF Has(device_loss_inputs, loss_inputs[i].k)
                  THEN Get(device_loss_inputs, loss_inputs[i].k)
                  ELSE None)]

\* for i in range(len(d)): if i in d: pop it, else break -- how many are popped
RECURSIVE PositionalCount(_, _)
PositionalCount(d, i) ==
    IF i < Len(d) /\ Has(d, I(i)) THEN PositionalCount(d, i + 1) ELSE i

\* LossArgs with the positional arguments collected in reverse
LossArgsReversed(d) ==
    [j \in 1 .. PositionalCount(d, 0) |-> Get(d, I(PositionalCount(d, 0) - j))]

\* device_loss_args
LossArgs(d) == [j \in 1 .. PositionalCount(d, 0) |-> Get(d, I(j - 1))]

\* device_loss_inputs once the positional arguments are popped
AfterPositional(d) ==
    SelectSeq(d, LAMBDA it : ~(IsInt(it.k) /\ it.k.idx < PositionalCount(d, 0)))

\* device_loss_kwargs: the string keys
LossKwargs(d) ==
    LET named == SelectSeq(AfterPositional(d), LAMBDA it : IsStr(it.k))
    IN  AsFunction([i \in DOMAIN named |-> Item(named[i].k.name, named[i].v)])

\* what is left in device_loss_inputs for the assert
Leftover(d) == SelectSeq(AfterPositional(d), LAMBDA it : ~IsStr(it.k))

(***************************************************************************)
(* Gradients: retain_gradients before the loss, the harvest after the      *)
(* optimizer step.                                                         *)
(***************************************************************************)
\* the attributes getattr(self.model, name) finds
ModelAttrs == {"layer"}

\* GradientTensor with every key that is no int looked up as an attribute
GradientTensorUnchecked(array_name, outs) ==
    IF IsInt(array_name)
    THEN IF array_name \in DOMAIN outs THEN [error |-> "", tensor |-> outs[array_name]]
         ELSE [error |-> "KeyError", tensor |-> None]
    ELSE [error |-> "", tensor |-> ModelAttr(array_name.name)]

\* the tensor a gradients key names; "error" says what the lookup raises
GradientTensor(array_name, outs) ==
    IF IsInt(array_name)
    THEN IF array_name \in DOMAIN outs THEN [error |-> "", tensor |-> outs[array_name]]
         ELSE [error |-> "KeyError", tensor |-> None]
    ELSE IF IsStr(array_name)
    THEN IF array_name.name \in ModelAttrs
         THEN [error |-> "", tensor |-> ModelAttr(array_name.name)]
         ELSE [error |-> "AttributeError", tensor |-> None]
    ELSE [error |-> "InvalidGradientKey", tensor |-> None]

\* RetainGradients without the test 'array_key not in request'
RECURSIVE RetainGradientsAll(_, _, _)
RetainGradientsAll(gradients, req, outs) ==
    IF gradients = <<>> THEN [error |-> "", retained |-> {}]
    ELSE LET g == Head(gradients)
             t == GradientTensor(g.k, outs)
             rest == RetainGradientsAll(Tail(gradients), req, outs)
         IN  IF t.error # "" THEN [error |-> t.error, retained |-> {}]
             ELSE [error |-> rest.error, retained |-> {t.tensor} \cup rest.retained]

\* retain_gradients: the tensors marked, and the error that stopped the loop, if any
RECURSIVE RetainGradients(_, _, _)
RetainGradients(gradients, req, outs) ==
    IF gradients = <<>> THEN [error |-> "", retained |-> {}]
    ELSE LET g == Head(gradients)
             t == GradientTensor(g.k, outs)
             rest == RetainGradients(Tail(gradients), req, outs)
         IN  IF g.v \notin DOMAIN req THEN rest
             ELSE IF t.error # "" THEN [error |-> t.error, retained |-> {}]
             ELSE [error |-> rest.error, retained |-> {t.tensor} \cup rest.retained]

\* Harvested with the line spec.roi = request[array_key].roi left out
HarvestedWithDeclaredRoi(data, array_key, req) == Array(data, DeclaredSpec(array_key))

\* batch.arrays[array_key] = Array(data, spec) with spec = self.spec[array_key].copy()
\* and spec.roi = request[array_key].roi
Harvested(data, array_key, req) ==
    Array(data, [DeclaredSpec(array_key) EXCEPT !.roi = req[array_key].roi])

\* Store that keeps nothing but the entry it writes
StoreOnly(arrays, array_key, array) == [x \in {array_key} |-> array]

\* batch.arrays[array_key] = array
Store(arrays, array_key, array) ==
    [x \in DOMAIN arrays \cup {array_key} |-> IF x = array_key THEN array ELSE arrays[x]]

\* for array_key, array_name in requested_outputs.items(): batch.arrays[array_key] = ...
RECURSIVE HarvestOutputs(_, _, _, _)
HarvestOutputs(arrays, requested_outputs, req, outs) ==
    IF requested_outputs = <<>> THEN arrays
    ELSE LET ro == Head(requested_outputs)
         IN  HarvestOutputs(Store(arrays, ro.k, Harvested(ToNumpy(outs[ro.v]), ro.k, req)),
                            Tail(requested_outputs), req, outs)

\* for array_name, array_key in self.gradients.items(): batch.arrays[array_key] = ...
RECURSIVE HarvestGradients(_, _, _, _)
HarvestGradients(arrays, gradients, req, outs) ==
    IF gradients = <<>> THEN arrays
    ELSE LET g == Head(gradients)
             t == GradientTensor(g.k, outs).tensor
         IN  IF g.v \notin DOMAIN req THEN HarvestGradients(arrays, Tail(gradients), req, outs)
             ELSE HarvestGradients(Store(arrays, g.v, Harvested(ToNumpy(GradOf(t)), g.v, req)),
                                   Tail(gradients), req, outs)

\* the harvest as the specification describes it: the outputs loop and the gradients
\* loop of train_step, each run once
HarvestOnce(arrays, outputs, gradients, req, outs) ==
    LET requested_outputs == CollectRequestedOutputs(outputs, req)
    IN  HarvestGradients(HarvestOutputs(arrays, requested_outputs, req, outs),
                         gradients, req, outs)

\* the three harvest loops of train_step, in the order the code runs them
Harvest(arrays, outputs, gradients, req, outs) ==
    LET requested_outputs == CollectRequestedOutputs(outputs, req)
        first == HarvestOutputs(arrays, requested_outputs, req, outs)
        second == HarvestGradients(first, gradients, req, outs)
    IN  HarvestOutputs(second, requested_outputs, req, outs)

(***************************************************************************)
(* Checkpoints.  A file of the checkpoint folder is named by the basename  *)
(* and an iteration or the word "latest"; it holds the two state dicts.    *)
(***************************************************************************)
Numbered(n) == [kind |-> "iteration", n |-> n]
Latest == [kind |-> "latest", n |-> 0]

\* GenericTrain._checkpoint_name(basename, iteration): basename_checkpoint_<iteration>
CheckpointName(basename, suffix) == [basename |-> basename, kind |-> suffix.kind, n |-> suffix.n]

\* torch.save({"model_state_dict": ..., "optimizer_state_dict": ...}, path)
Save(fs, name, model_state_dict, optimizer_state_dict) ==
    [x \in DOMAIN fs \cup {name} |->
        IF x = name
        THEN [model_state_dict |-> model_state_dict, optimizer_state_dict |-> optimizer_state_dict]
        ELSE fs[x]]

\* CheckpointWrites with the cadence tested on the iteration before its increment
CheckpointWritesBeforeIncrement(basename, it, save_every) ==
    IF (it - 1) % save_every = 0
    THEN <<CheckpointName(basename, Numbered(it)), CheckpointName(basename, Latest)>>
    ELSE <<>>

\* CheckpointWrites with the "latest" file written in every step
CheckpointWritesLatestAlways(basename, it, save_every) ==
    IF it % save_every = 0
    THEN <<CheckpointName(basename, Numbered(it)), CheckpointName(basename, Latest)>>
    ELSE <<CheckpointName(basename, Latest)>>

\* the names train_step writes when the iteration is a multiple of save_every
CheckpointWrites(basename, it, save_every) ==
    IF it % save_every = 0
    THEN <<CheckpointName(basename, Numbered(it)), CheckpointName(basename, Latest)>>
    ELSE <<>>

\* the checkpoint phase of train_step: both files get the current state dicts
RECURSIVE SaveCheckpoints(_, _, _, _)
SaveCheckpoints(fs, names, model_state_dict, optimizer_state_dict) ==
    IF names = <<>> THEN fs
    ELSE SaveCheckpoints(Save(fs, Head(names), model_state_dict, optimizer_state_dict),
                         Tail(names), model_state_dict, optimizer_state_dict)

\* GenericTrain._get_latest_checkpoint: the numbered checkpoint of the highest iteration
GetLatestCheckpoint(fs, basename) ==
    LET numbered == {x \in DOMAIN fs : x.basename = basename /\ x.kind = "iteration"}
    IN  IF numbered = {} THEN [found |-> FALSE, name |-> CheckpointName(basename, Latest), iteration |-> 0]
        ELSE LET top == CHOOSE x \in numbered : \A y \in numbered : y.n <= x.n
             IN  [found |-> TRUE, name |-> top, iteration |-> top.n]

\* Resumed without self.optimizer.load_state_dict
ResumedModelOnly(fs, basename, ms, os) ==
    LET latest == GetLatestCheckpoint(fs, basename)
    IN  IF latest.found
        THEN [iteration |-> latest.iteration,
              model_state |-> fs[latest.name].model_state_dict,
              optimizer_state |-> os]
        ELSE [iteration |-> latest.iteration, model_state |-> ms, optimizer_state |-> os]

\* start(): the iteration and the states the node has after looking for a checkpoint
Resumed(fs, basename, ms, os) ==
    LET latest == GetLatestCheckpoint(fs, basename)
    IN  IF latest.found
        THEN [iteration |-> latest.iteration,
              model_state |-> fs[latest.name].model_state_dict,
              optimizer_state |-> fs[latest.name].optimizer_state_dict]
        ELSE [iteration |-> latest.iteration, model_state |-> ms, optimizer_state |-> os]

\* self.optimizer.step(): one update of the parameters and of the optimizer's state
Stepped(state) == [state EXCEPT !.updates = @ + 1]

(***************************************************************************)
(* The logging phase of train_step.                                        *)
(***************************************************************************)
LogPhase(node, loss, it) ==
    IF node.use_wandb /\ node.wandb_logger = "run" /\ it % node.log_every = 0
    THEN [error |-> "", records |-> <<[sink |-> "wandb", loss |-> loss, iteration |-> it]>>]
    ELSE IF node.summary_writer = "unset"
    THEN [error |-> "AttributeError", records |-> <<>>]
    ELSE IF node.summary_writer = "writer" /\ it % node.log_every = 0
    THEN [error |-> "", records |-> <<[sink |-> "tensorboard", loss |-> loss, iteration |-> it]>>]
    ELSE [error |-> "", records |-> <<>>]

(***************************************************************************)
(* train_step(batch, request).  The result is a record of everything the   *)
(* call leaves behind: how it ended ("done" or the error raised), the      *)
(* calls it made on its collaborators, and the node's and batch's fields.  *)
(***************************************************************************)
\* lines 283-284: the model inputs and the requested outputs are collected first
Entered(b) ==
    [result |-> "", events |-> <<"collect_inputs">>, model_args |-> <<>>, loss_called |-> FALSE,
     loss_args |-> <<>>, loss_kwargs |-> <<>>, retained |-> {}, update_grads |-> {},
     written |-> <<>>, logged |-> <<>>, prepared |-> 0, via |-> "",
     returned |-> Returned("not called", 0), fired |-> {}, outputs |-> <<>>,
     intermediate_layers |-> intermediate_layers, opt_grads |-> opt_grads, wraps |-> wraps,
     model_state |-> model_state, optimizer_state |-> optimizer_state,
     iteration |-> iteration, files |-> files, batch |-> b]

\* Raise with the parameters updated before the error leaves train_step
RaiseAfterUpdate(r, error) ==
    [r EXCEPT !.result = error, !.model_state = Stepped(@), !.optimizer_state = Stepped(@)]

\* raise ...: train_step ends with the error, leaving what it did so far
Raise(r, error) == [r EXCEPT !.result = error]

\* ZeroGrad that leaves the accumulated gradients in place
ZeroGradSkipped(grads) == grads

\* self.optimizer.zero_grad(): no backward pass is accumulated any more
ZeroGrad(grads) == {}

\* Incremented that leaves the counter alone
NotIncremented(it) == it

\* self.iteration += 1
Incremented(it) == it + 1

\* lines 417-458: loss and iteration into the batch, then checkpoint and log
Finish(node, r, c) ==
    LET it == Incremented(r.iteration)
        loss == ToNumpy(LossValue(c))
        names == CheckpointWrites(node.checkpoint_basename, it, node.save_every)
        log == LogPhase(node, loss, it)
    IN  [r EXCEPT !.iteration = it,
                  !.batch = [@ EXCEPT !.loss = loss, !.iteration = it],
                  !.files = SaveCheckpoints(@, names, r.model_state, r.optimizer_state),
                  !.written = names,
                  !.logged = log.records,
                  !.events = @ \o <<"increment">>
                               \o (IF names # <<>> THEN <<"checkpoint">> ELSE <<>>)
                               \o (IF log.records # <<>> THEN <<"log">> ELSE <<>>),
                  !.result = IF log.error # "" THEN log.error ELSE "done"]

\* lines 365-415: retain gradients, loss, backward, optimizer step, harvest
Compute(node, r, req, outs, device_loss_inputs, c) ==
    LET rg == RetainGradients(node.gradients, req, outs)
        marked == [r EXCEPT !.retained = rg.retained, !.events = @ \o <<"retain_gradients">>]
    IN  IF rg.error # "" THEN Raise(marked, rg.error)
        ELSE Finish(node,
                    [marked EXCEPT
                        !.loss_called = TRUE,
                        !.loss_args = LossArgs(device_loss_inputs),
                        !.loss_kwargs = LossKwargs(device_loss_inputs),
                        !.opt_grads = @ \cup {c},
                        !.update_grads = r.opt_grads \cup {c},
                        !.model_state = Stepped(@),
                        !.optimizer_state = Stepped(@),
                        !.events = @ \o <<"loss", "backward", "optimizer_step", "harvest">>,
                        !.batch = [@ EXCEPT !.arrays =
                                      Harvest(@, node.outputs, node.gradients, req, outs)]],
                    c)

\* lines 302-363: zero_grad, forward, outputs, loss inputs and their split
Forward(node, r, b, req, ret, fired, c) ==
    LET cache == SaveLayers(r.intermediate_layers, fired, c)
        fwd == [r EXCEPT !.events = @ \o <<"zero_grad", "forward">>,
                         !.opt_grads = ZeroGrad(@),
                         !.intermediate_layers = cache,
                         !.returned = ret,
                         !.fired = fired,
                         !.model_args = OnDevice(CollectProvidedInputs(node.inputs, node.loss_inputs, b))]
        outs == MergeLayers(IndexedOutputs(ret, c), cache)
        device_loss_inputs ==
            OverlayLossInputs(node.loss_inputs, FlippedOutputs(node.outputs, outs),
                              OnDevice(CollectProvidedLossInputs(node.loss_inputs, b)))
    IN  IF ~SupportedReturn(ret) THEN Raise(fwd, "UnsupportedOutput")
        ELSE IF ~(Keys(node.outputs) \subseteq DOMAIN outs) THEN Raise(fwd, "KeyError")
        ELSE IF Leftover(device_loss_inputs) # <<>> THEN Raise(fwd, "AssertionError")
        ELSE Compute(node, [fwd EXCEPT !.outputs = outs], req, outs, device_loss_inputs, c)

\* lines 286-288: self.model, self.optimizer = accelerator.prepare(self.model, self.optimizer)
Prepared(r) == [r EXCEPT !.prepared = 1, !.wraps = @ + 1, !.via = "accelerator"]

\* lines 286-300: self.ddp is read (an attribute __init__ never sets), and with it
\* true accelerator is used, a name that is no local of train_step and that this file
\* binds nowhere else
TrainStepResult(node, b, req, ret, fired, c) ==
    IF node.ddp = "unset" THEN Raise(Entered(b), "AttributeError")
    ELSE IF node.ddp = "true"
    THEN IF node.accelerator = "unbound" THEN Raise(Entered(b), "NameError")
         ELSE Forward(node, Prepared(Entered(b)), b, req, ret, fired, c)
    ELSE Forward(node, [Entered(b) EXCEPT !.via = "local"], b, req, ret, fired, c)

(***************************************************************************)
(* The node.                                                               *)
(***************************************************************************)
\* __init__: the fields of a node constructed with the arguments a.  a.ddp stands for
\* the attribute self.ddp, which train_step reads and __init__ (which sets self.use_ddp)
\* never assigns: "unset", or the value the rest of the program gave it.  a.accelerator
\* stands for the name accelerator as train_step sees it: __init__ binds it as a local
\* only, so it is "unbound" unless the rest of the program binds it in the module.
Node(a) ==
    LET sinks == Sinks(a.use_wandb, a.has_log_dir, a.wandb_installed,
                       a.tensorboardX_installed, a.log_every)
    IN  [inputs |-> FoldInputs(a.inputs, a.loss_inputs, a.outputs),
         outputs |-> a.outputs,
         gradients |-> a.gradients,
         loss_inputs |-> a.loss_inputs,
         checkpoint_basename |-> a.checkpoint_basename,
         save_every |-> a.save_every,
         use_wandb |-> a.use_wandb,
         use_ddp |-> a.use_ddp,
         ddp |-> a.ddp,
         accelerator |-> a.accelerator,
         wandb_logger |-> sinks.wandb_logger,
         summary_writer |-> sinks.summary_writer,
         log_every |-> sinks.log_every]

\* a model and an optimizer as the caller makes them, before any update
Fresh(weights) == [init |-> weights, updates |-> 0]

\* what is kept of a train_step call: how it ended and the calls it made
CallRecord(r) ==
    [f \in {"result", "events", "model_args", "loss_called", "loss_args", "loss_kwargs",
             "retained", "update_grads", "written", "logged", "prepared", "via",
             "returned", "fired", "outputs"} |-> r[f]]

NoStep == CallRecord([Entered(NoBatch) EXCEPT !.result = "none", !.events = <<>>])

\* the state a freshly constructed node is in, given the folder it finds
Constructed(a, folder, made) ==
    /\ args = a
    /\ cfg = Node(a)
    /\ started = FALSE
    /\ iteration = 0
    /\ intermediate_layers = <<>>
    /\ model_state = Fresh(a.weights)
    /\ optimizer_state = Fresh(a.weights)
    /\ opt_grads = {}
    /\ wraps = 0
    /\ files = (IF a.delete_checkpoints THEN <<>> ELSE folder)
    /\ calls = made
    /\ batch0 = NoBatch
    /\ request = NoRequest
    /\ batch = NoBatch
    /\ step = NoStep

\* Train(...): a new node replaces the current one; the checkpoint folder stays,
\* unless delete_checkpoints wipes it
Construct(a) ==
    /\ args' = a
    /\ cfg' = Node(a)
    /\ started' = FALSE
    /\ iteration' = 0
    /\ intermediate_layers' = <<>>
    /\ model_state' = Fresh(a.weights)
    /\ optimizer_state' = Fresh(a.weights)
    /\ opt_grads' = {}
    /\ wraps' = 0
    /\ files' = (IF a.delete_checkpoints THEN <<>> ELSE files)
    /\ batch0' = NoBatch
    /\ request' = NoRequest
    /\ batch' = NoBatch
    /\ step' = NoStep
    /\ UNCHANGED calls

\* start(): resume from the latest checkpoint, if there is one (moving the model and
\* the loss to the device does not change the state modelled here)
Start ==
    /\ ~started
    /\ LET r == Resumed(files, cfg.checkpoint_basename, model_state, optimizer_state)
       IN  /\ iteration' = r.iteration
           /\ model_state' = r.model_state
           /\ optimizer_state' = r.optimizer_state
    /\ started' = TRUE
    /\ UNCHANGED <<cfg, args, intermediate_layers, opt_grads, wraps, files, calls,
                   batch0, request, batch, step>>

\* train_step(batch, request), with what the model does in this call
TrainStep(b, req, ret, fired) ==
    /\ started
    /\ fired \subseteq HookedLayers(cfg.outputs)
    /\ \E r \in {TrainStepResult(cfg, b, req, ret, fired, calls + 1)} :
           /\ step' = CallRecord(r)
           /\ batch' = r.batch
           /\ iteration' = r.iteration
           /\ intermediate_layers' = r.intermediate_layers
           /\ opt_grads' = r.opt_grads
           /\ wraps' = r.wraps
           /\ model_state' = r.model_state
           /\ optimizer_state' = r.optimizer_state
           /\ files' = r.files
    /\ batch0' = b
    /\ request' = req
    /\ calls' = calls + 1
    /\ UNCHANGED <<cfg, args, started>>

(***************************************************************************)
(* Configurations and inputs explored.                                     *)
(***************************************************************************)
Dict2(k1, v1, k2, v2) == <<Item(k1, v1), Item(k2, v2)>>
Dict3(k1, v1, k2, v2, k3, v3) == <<Item(k1, v1), Item(k2, v2), Item(k3, v3)>>

InputsChoices == {<<Item(S("x"), "RAW")>>}

OutputsChoices ==
    {<<Item(I(0), "PRED")>>,
     Dict2(I(0), "PRED", S("layer"), "EMB"),
     Dict2(I(0), "PRED", I(1), "EMB")}

LossInputsChoices ==
    {Dict3(I(0), "PRED", I(1), "GT", S("c"), "MASK"),
     Dict3(S("c"), "MASK", I(1), "GT", I(0), "PRED"),
     Dict2(I(0), "PRED", I(2), "GT"),
     Dict2(I(0), "PRED", F("1.5"), "GT"),
     Dict2(I(0), "EMB", S("x"), "GT")}

GradientsChoices ==
    {<<>>,
     <<Item(I(0), "GRAD")>>,
     <<Item(I(0), "PRED")>>,
     <<Item(S("layer"), "GRAD")>>,
     <<Item(F("1.5"), "GRAD")>>,
     Dict2(I(0), "GRAD", S("layer"), "LGRAD")}

DdpChoices == {"unset", "false", "true"}

BaseArgs ==
    [inputs |-> <<Item(S("x"), "RAW")>>,
     outputs |-> <<Item(I(0), "PRED")>>,
     loss_inputs |-> Dict2(I(0), "PRED", I(1), "GT"),
     gradients |-> <<>>,
     checkpoint_basename |-> "model",
     save_every |-> MaxEvery,
     log_every |-> 1,
     has_log_dir |-> FALSE,
     use_wandb |-> FALSE,
     wandb_installed |-> TRUE,
     tensorboardX_installed |-> TRUE,
     use_ddp |-> FALSE,
     ddp |-> "false",
     accelerator |-> "unbound",
     delete_checkpoints |-> FALSE,
     weights |-> 0]

BindArgs ==
    {[BaseArgs EXCEPT !.inputs = i, !.outputs = o, !.loss_inputs = l, !.gradients = g]
        : i \in InputsChoices, o \in OutputsChoices, l \in LossInputsChoices,
          g \in GradientsChoices}
    \cup {[BaseArgs EXCEPT !.ddp = d, !.use_ddp = u] : d \in DdpChoices, u \in BOOLEAN}

BindBatches == {Batch({"RAW", "GT", "MASK"}), Batch({"RAW", "GT"}), Batch({"RAW", "GT", "MASK", "PRED", "GRAD"})}
BindRequests ==
    {Request({}, "roi1"), Request({"PRED"}, "roi1"), Request({"GRAD"}, "roi1"),
     Request({"PRED", "EMB", "GRAD", "LGRAD"}, "roi2")}
Returns == {Returned("tensor", 1), Returned("tuple", 2), Returned("mapping", 0)}
Layers == {"layer"}

Init == \E a \in BindArgs : Constructed(a, <<>>, 0)

Next ==
    \/ \E b \in BindBatches, req \in BindRequests, ret \in Returns, fired \in SUBSET Layers :
          calls < MaxCalls /\ TrainStep(b, req, ret, fired)
    \/ Start
    \/ Construct(args)

Spec == Init /\ [][Next]_vars

(***************************************************************************)
(* The checkpoint cadence and resume: the bindings are fixed, save_every,  *)
(* the fresh model's weights and delete_checkpoints vary, and nodes are    *)
(* constructed again over the same checkpoint folder.                      *)
(***************************************************************************)
Weights == {0, 1}

CadenceArgs ==
    {[BaseArgs EXCEPT !.save_every = s, !.weights = w, !.delete_checkpoints = d]
        : s \in 1 .. MaxEvery, w \in Weights, d \in BOOLEAN}

CadenceBatch == Batch({"RAW", "GT"})
CadenceRequest == Request({"PRED"}, "roi1")

InitCadence == \E a \in CadenceArgs : Constructed(a, <<>>, 0)

NextCadence ==
    \/ calls < MaxIter /\ TrainStep(CadenceBatch, CadenceRequest, Returned("tensor", 1), {})
    \/ Start
    \/ \E a \in CadenceArgs : Construct(a)

SpecCadence == InitCadence /\ [][NextCadence]_vars

(***************************************************************************)
(* The log cadence: the metric sink and log_every vary.                    *)
(***************************************************************************)
LogArgs ==
    {[BaseArgs EXCEPT !.log_every = l, !.use_wandb = u, !.has_log_dir = h,
                      !.wandb_installed = wi, !.tensorboardX_installed = ti]
        : l \in 1 .. MaxEvery, u \in BOOLEAN, h \in BOOLEAN, wi \in BOOLEAN, ti \in BOOLEAN}

InitLog == \E a \in LogArgs : Constructed(a, <<>>, 0)

NextLog ==
    \/ calls < MaxIter /\ TrainStep(CadenceBatch, CadenceRequest, Returned("tensor", 1), {})
    \/ Start
    \/ Construct(args)

SpecLog == InitLog /\ [][NextLog]_vars

(***************************************************************************)
(* The distributed path: the use_ddp flag, what train_step finds in        *)
(* self.ddp and what the name accelerator is bound to vary.                *)
(***************************************************************************)
AcceleratorChoices == {"unbound", "bound"}

DdpArgs ==
    {[BaseArgs EXCEPT !.use_ddp = u, !.ddp = d, !.accelerator = acc]
        : u \in BOOLEAN, d \in DdpChoices, acc \in AcceleratorChoices}

InitDdp == \E a \in DdpArgs : Constructed(a, <<>>, 0)

NextDdp ==
    \/ \E req \in {Request({}, "roi1"), CadenceRequest} :
          calls < MaxIter /\ TrainStep(CadenceBatch, req, Returned("tensor", 1), {})
    \/ Start
    \/ Construct(args)

SpecDdp == InitDdp /\ [][NextDdp]_vars

(***************************************************************************)
(* Properties.                                                             *)
(***************************************************************************)
Completed == step.result = "done"

\* the output a requested ArrayKey is harvested from: the last outputs entry bound to it
OutputNameOf(array_key) ==
    cfg.outputs[CHOOSE i \in DOMAIN cfg.outputs :
                    /\ cfg.outputs[i].v = array_key
                    /\ \A j \in DOMAIN cfg.outputs : cfg.outputs[j].v = array_key => j <= i].k

\* C1: after a completed train_step every ArrayKey that is a value of the outputs map
\* and is in the request is in batch.arrays, with the request's region of interest
\* and the other spec fields of the node's declared spec.
C1_RequestedOutputsInBatch ==
    Completed =>
        \A array_key \in Values(cfg.outputs) \cap DOMAIN request :
            /\ array_key \in DOMAIN batch.arrays
            /\ batch.arrays[array_key].spec.roi = request[array_key].roi
            /\ batch.arrays[array_key].spec.voxel_size = DeclaredSpec(array_key).voxel_size

\* a completed step that overwrote an upstream array with a requested output
C1_Witness ==
    /\ Completed
    /\ \E array_key \in Values(cfg.outputs) \cap DOMAIN request :
          /\ array_key \in DOMAIN batch0.arrays
          /\ batch.arrays[array_key].spec.roi = "roi2"
          /\ batch.arrays[array_key].data.origin = "out"

\* C2: after a completed train_step, a gradients entry whose ArrayKey is requested has
\* the retained gradient of its tensor in the batch under that ArrayKey, and one whose
\* ArrayKey is not requested leaves the batch entry (present or absent) as it was.
C2_GradientsInBatch ==
    Completed =>
        \A i \in DOMAIN cfg.gradients :
            LET array_name == cfg.gradients[i].k
                array_key == cfg.gradients[i].v
            IN  IF array_key \in DOMAIN request
                THEN /\ array_key \in DOMAIN batch.arrays
                     /\ batch.arrays[array_key].data =
                            ToNumpy(GradOf(GradientTensor(array_name, step.outputs).tensor))
                ELSE /\ (array_key \in DOMAIN batch.arrays) = (array_key \in DOMAIN batch0.arrays)
                     /\ array_key \in DOMAIN batch0.arrays =>
                            batch.arrays[array_key] = batch0.arrays[array_key]

NumberedFiles(fs) ==
    {x \in DOMAIN fs : x.basename = cfg.checkpoint_basename /\ x.kind = "iteration"}
LatestFile == [basename |-> cfg.checkpoint_basename, kind |-> "latest", n |-> 0]
VersionedFile(n) == [basename |-> cfg.checkpoint_basename, kind |-> "iteration", n |-> n]
SavedRecord(ms, os) == [model_state_dict |-> ms, optimizer_state_dict |-> os]

\* a train_step call that ran to its end
CompletedStep == calls' = calls + 1 /\ step'.result = "done"

\* C3: a completed train_step writes a versioned checkpoint if and only if the
\* iteration counter after its increment is a multiple of save_every; the file is the
\* one of that iteration and no other versioned file appears or changes.
C3_CheckpointCadence ==
    [][CompletedStep =>
          /\ iteration' = iteration + 1
          /\ (\E i \in DOMAIN step'.written : step'.written[i].kind = "iteration")
                <=> (iteration' % cfg.save_every = 0)
          /\ NumberedFiles(files') =
                NumberedFiles(files)
                    \cup (IF iteration' % cfg.save_every = 0 THEN {VersionedFile(iteration')}
                          ELSE {})
          /\ \A x \in NumberedFiles(files) : x.n # iteration' => files'[x] = files[x]]_vars

\* the second checkpoint of a run with save_every > 1 has been written
C3_Witness ==
    /\ Completed
    /\ cfg.save_every > 1
    /\ iteration = 2 * cfg.save_every
    /\ VersionedFile(iteration) \in DOMAIN files
    /\ step.written # <<>>

\* C4: start() of a fresh node sets the iteration counter to the highest iteration K
\* of the versioned checkpoints in the folder and the model and optimizer states to
\* the ones saved in that file ("latest" is no candidate); with no versioned checkpoint
\* it sets the counter to 0 and leaves the states alone.  A step completed at counter
\* K reports batch.iteration = K + 1.
C4_Resume ==
    [][/\ (~started /\ started') =>
             IF NumberedFiles(files) = {}
             THEN /\ iteration' = 0
                  /\ model_state' = model_state
                  /\ optimizer_state' = optimizer_state
             ELSE \E x \in NumberedFiles(files) :
                     /\ \A y \in NumberedFiles(files) : y.n <= x.n
                     /\ iteration' = x.n
                     /\ model_state' = files[x].model_state_dict
                     /\ optimizer_state' = files[x].optimizer_state_dict
       /\ CompletedStep => batch'.iteration = iteration + 1]_vars

\* a fresh node with other weights resumed from a checkpoint, and stepped once
C4_Witness ==
    /\ Completed
    /\ model_state.init # args.weights
    /\ model_state.updates = iteration
    /\ \E x \in NumberedFiles(files) : x.n + 1 = iteration /\ batch.iteration = x.n + 1

\* C5: whenever the "latest" file exists, it holds what the versioned checkpoint of the
\* highest iteration holds; a step that checkpoints leaves the same record, the
\* states after its optimizer step, in the versioned file and in "latest".
C5_LatestIsHighest ==
    /\ LatestFile \in DOMAIN files =>
          \E x \in NumberedFiles(files) :
              /\ \A y \in NumberedFiles(files) : y.n <= x.n
              /\ files[LatestFile] = files[x]
    /\ (Completed /\ step.written # <<>>) =>
          /\ {LatestFile, VersionedFile(iteration)} \subseteq DOMAIN files
          /\ files[LatestFile] = SavedRecord(model_state, optimizer_state)
          /\ files[VersionedFile(iteration)] = SavedRecord(model_state, optimizer_state)

\* "latest" beside two versioned checkpoints that differ
C5_Witness ==
    /\ LatestFile \in DOMAIN files
    /\ \E x, y \in NumberedFiles(files) : x.n < y.n /\ files[x] # files[y] /\ files[LatestFile] = files[y]
    /\ ~(Completed /\ step.written # <<>>)

Attempted == step.result # "none"
Events == {step.events[i] : i \in DOMAIN step.events}
ReturnedUnsupported == step.returned.type = "mapping"

\* C6 (as claimed): when the model returns neither a tensor nor a tuple, train_step
\* raises the unsupported-output error and has invoked neither the loss nor any
\* operation of the optimizer.
C6_NoOptimizerOperation ==
    ReturnedUnsupported =>
        /\ step.result = "UnsupportedOutput"
        /\ ~step.loss_called
        /\ Events \cap {"loss", "zero_grad", "optimizer_step"} = {}

\* C6 (amended): when the model returns neither a tensor nor a tuple, train_step raises
\* the unsupported-output error and has invoked neither the loss, nor backward, nor
\* the optimizer update; all it did is clear the gradients and run the forward pass.
C6_UnsupportedReturnAborts ==
    [][(calls' = calls + 1 /\ step'.returned.type = "mapping") =>
          /\ step'.result = "UnsupportedOutput"
          /\ ~step'.loss_called
          /\ step'.events = <<"collect_inputs", "zero_grad", "forward">>
          /\ model_state' = model_state
          /\ optimizer_state' = optimizer_state
          /\ iteration' = iteration]_vars

\* a step whose model returned a mapping
C6_Witness == ReturnedUnsupported /\ step.result = "UnsupportedOutput" /\ iteration > 0

InvalidKey(k) == ~IsInt(k) /\ ~IsStr(k)
\* the gradients entries with an invalid key, and those of them the request names
InvalidGradients == {i \in DOMAIN cfg.gradients : InvalidKey(cfg.gradients[i].k)}
InvalidRequested == {i \in InvalidGradients : cfg.gradients[i].v \in DOMAIN request}
\* the gradients entries before entry i that the request names all name a tensor
EarlierResolve(i) ==
    \A j \in 1 .. i - 1 :
        cfg.gradients[j].v \in DOMAIN request =>
            GradientTensor(cfg.gradients[j].k, step.outputs).error = ""

\* C7 (as claimed): with a gradients entry whose key is neither int nor str, train_step
\* raises the invalid-gradient-key error before the forward pass, the loss, backward
\* and the optimizer update (checked on steps that no other error ended).
C7_RaisedBeforeForward ==
    (/\ Attempted
     /\ cfg.ddp = "false"
     /\ InvalidGradients # {}
     /\ step.result \notin {"UnsupportedOutput", "KeyError", "AssertionError"}) =>
        /\ step.result = "InvalidGradientKey"
        /\ Events \cap {"forward", "loss", "backward", "optimizer_step"} = {}

\* C7 (amended): with a gradients entry whose key is neither int nor str and whose
\* ArrayKey is in the request, train_step aborts after the gradients are cleared and
\* the forward pass has run, and before the loss, backward and the optimizer update;
\* the error is the invalid-gradient-key error once the step gets to retain_gradients
\* and the entries before it resolve.  Invalid entries whose ArrayKeys are all absent
\* from the request raise nothing.
C7_InvalidGradientKeyAborts ==
    (Attempted /\ cfg.ddp = "false") =>
        /\ InvalidRequested # {} =>
              /\ step.result # "done"
              /\ ~step.loss_called
              /\ "forward" \in Events
              /\ Events \cap {"loss", "backward", "optimizer_step"} = {}
              /\ \A i \in InvalidRequested :
                    ("retain_gradients" \in Events /\ EarlierResolve(i)) =>
                        step.result = "InvalidGradientKey"
        /\ InvalidRequested = {} => step.result # "InvalidGradientKey"

\* the invalid key's ArrayKey requested and the error raised, after the forward pass
C7_Witness ==
    /\ InvalidRequested # {}
    /\ step.result = "InvalidGradientKey"
    /\ step.events = <<"collect_inputs", "zero_grad", "forward", "retain_gradients">>

\* the invalid key's ArrayKey not requested and the step completed
C7_WitnessNotRequested == InvalidGradients # {} /\ InvalidRequested = {} /\ Completed

IntKeys(d) == {k \in Keys(d) : IsInt(k)}
StrKeys(d) == {k \in Keys(d) : IsStr(k)}

\* the integer keys of loss_inputs are 0..n-1 and its other keys are strings
WellFormedLossInputs ==
    /\ Keys(cfg.loss_inputs) = IntKeys(cfg.loss_inputs) \cup StrKeys(cfg.loss_inputs)
    /\ IntKeys(cfg.loss_inputs) = {I(i) : i \in 0 .. Cardinality(IntKeys(cfg.loss_inputs)) - 1}

\* an ArrayKey some model output provides, or the batch holds
Grounded(array_key) ==
    array_key \in Values(cfg.outputs) \/ array_key \in DOMAIN batch0.arrays

\* value(array_key): the model's output tensor of this step, else the batch's array
\* as a tensor
Resolved(array_key) ==
    IF array_key \in Values(cfg.outputs) THEN step.outputs[OutputNameOf(array_key)]
    ELSE [form |-> "tensor", origin |-> "batch", idx |-> 0, name |-> array_key,
          it |-> 0, grad |-> FALSE]

\* C8: with integer keys 0..n-1 and string keys otherwise, and every bound ArrayKey
\* available, the loss gets the values of keys 0..n-1 in index order as positional
\* arguments and the values of exactly the string keys as keyword arguments, and the
\* split leaves no key over.
C8_LossArgumentSplit ==
    (WellFormedLossInputs /\ \A array_key \in Values(cfg.loss_inputs) : Grounded(array_key)) =>
        /\ step.result # "AssertionError"
        /\ step.loss_called =>
              /\ Len(step.loss_args) = Cardinality(IntKeys(cfg.loss_inputs))
              /\ \A i \in 1 .. Len(step.loss_args) :
                    step.loss_args[i] = Resolved(Get(cfg.loss_inputs, I(i - 1)))
              /\ DOMAIN step.loss_kwargs = {k.name : k \in StrKeys(cfg.loss_inputs)}
              /\ \A k \in StrKeys(cfg.loss_inputs) :
                    step.loss_kwargs[k.name] = Resolved(Get(cfg.loss_inputs, k))

\* the loss called with two positional arguments, one from the model and one from the
\* batch, and a keyword argument, from a loss_inputs dict that lists the string key first
C8_Witness ==
    /\ step.loss_called
    /\ WellFormedLossInputs
    /\ IsStr(cfg.loss_inputs[1].k)
    /\ Len(step.loss_args) = 2
    /\ step.loss_args[1].origin = "out"
    /\ step.loss_args[2].origin = "batch"
    /\ DOMAIN step.loss_kwargs = {"c"}
    /\ step.loss_kwargs["c"].origin = "batch"

\* a loss_inputs key the split leaves over: no int or str, or an int after a gap
LeftoverKey(k) ==
    \/ InvalidKey(k)
    \/ IsInt(k) /\ \E j \in 0 .. k.idx - 1 : I(j) \notin Keys(cfg.loss_inputs)

\* some loss_inputs entry cannot be resolved
Ungrounded ==
    \E i \in DOMAIN cfg.loss_inputs :
        ~Grounded(cfg.loss_inputs[i].v) \/ LeftoverKey(cfg.loss_inputs[i].k)

SinkConfigured ==
    (cfg.use_wandb /\ cfg.wandb_logger = "run") \/ cfg.summary_writer = "writer"

\* C10: a step that gets to the logging phase does not fail there, sends at most one
\* record, and with a sink configured sends one, keyed by the step's iteration, if and
\* only if the iteration counter after the increment is a multiple of log_every.
C10_LogCadence ==
    "increment" \in Events =>
        /\ step.result = "done"
        /\ Len(step.logged) <= 1
        /\ \A i \in DOMAIN step.logged : step.logged[i].iteration = iteration
        /\ SinkConfigured => ((step.logged # <<>>) <=> (iteration % cfg.log_every = 0))
        /\ ~SinkConfigured => step.logged = <<>>

\* the ArrayKeys train_step may write: requested, and bound as an output or a gradient
Writable == DOMAIN request \cap (Values(cfg.outputs) \cup Values(cfg.gradients))

\* C11: a train_step, however it ends, removes no entry of batch.arrays and adds or
\* changes only entries of ArrayKeys that are in the request and are values of the
\* outputs or gradients maps; every other entry is the one the batch came with.
C11_BatchFrame ==
    Attempted =>
        /\ DOMAIN batch0.arrays \subseteq DOMAIN batch.arrays
        /\ \A array_key \in DOMAIN batch.arrays \ Writable :
              /\ array_key \in DOMAIN batch0.arrays
              /\ batch.arrays[array_key] = batch0.arrays[array_key]

\* a completed step that replaced one upstream array, added a new one and kept the others
C11_Witness ==
    /\ Completed
    /\ \E array_key \in Writable \cap DOMAIN batch0.arrays :
          batch.arrays[array_key] # batch0.arrays[array_key]
    /\ \E array_key \in Writable : array_key \notin DOMAIN batch0.arrays
    /\ \E array_key \in DOMAIN batch0.arrays \ Writable :
          batch.arrays[array_key] = batch0.arrays[array_key]

\* the positions of an event in the last step's events
Positions(e) == {i \in DOMAIN step.events : step.events[i] = e}

\* C12 (as claimed): a train_step that runs the model has cleared the optimizer's
\* accumulated gradients exactly once, as its first action, before any input is
\* resolved; at the optimizer update the gradients stem from this step's backward only.
C12_ClearedBeforeInputs ==
    "forward" \in Events =>
        /\ Cardinality(Positions("zero_grad")) = 1
        /\ \A i \in Positions("zero_grad"), j \in Positions("collect_inputs") : i < j
        /\ "optimizer_step" \in Events => step.update_grads = {calls}

\* C12 (amended): a train_step clears the accumulated gradients at most once, and a
\* step that runs the model exactly once: after the model inputs are resolved and
\* right before the forward pass, never after backward; a step that ends before the
\* forward pass clears nothing.  At the optimizer update the accumulated gradients are
\* those of this step's backward pass only.
C12_ClearedBeforeForward ==
    Attempted =>
        /\ Cardinality(Positions("zero_grad")) <= 1
        /\ "forward" \in Events <=> "zero_grad" \in Events
        /\ \A i \in Positions("zero_grad") :
              /\ i + 1 \in Positions("forward")
              /\ \E j \in Positions("collect_inputs") : j < i
              /\ \A j \in Positions("backward") \cup Positions("optimizer_step") : i < j
        /\ "optimizer_step" \in Events => step.update_grads = {calls}

\* the second completed step of a node: the first one's gradients are gone at its update
C12_Witness ==
    /\ Completed
    /\ iteration = 2
    /\ step.update_grads = {calls}
    /\ step.events[1] = "collect_inputs"
    /\ step.events[2] = "zero_grad"

C14_FlagSelectsPath ==
    Attempted =>
        /\ step.result = "done"
        /\ step.via = (IF cfg.use_ddp THEN "accelerator" ELSE "local")

\* the phases of a step, in the order claimed for them
PhaseOrder ==
    <<"forward", "loss", "backward", "optimizer_step", "harvest", "increment",
      "checkpoint", "log">>
IsPhase(e) == \E i \in DOMAIN PhaseOrder : PhaseOrder[i] = e
Rank(e) == CHOOSE i \in DOMAIN PhaseOrder : PhaseOrder[i] = e

\* C15: the phases of every train_step occur in the order forward, loss, backward,
\* optimizer update, harvest, iteration increment, checkpoint, log, each at most once;
\* a checkpoint or a log record is made only after the update, the harvest and the
\* increment of the same step and carries the incremented counter; a completed step
\* ran all phases up to the increment, raised the counter by exactly 1 and returned
\* it in batch.iteration.
C15_StepOrdering ==
    [][calls' = calls + 1 =>
          /\ \A i, j \in DOMAIN step'.events :
                (i < j /\ IsPhase(step'.events[i]) /\ IsPhase(step'.events[j])) =>
                    Rank(step'.events[i]) < Rank(step'.events[j])
          /\ (step'.written # <<>> \/ step'.logged # <<>>) =>
                \E i, j, k \in DOMAIN step'.events :
                    /\ i < j /\ j < k
                    /\ step'.events[i] = "optimizer_step"
                    /\ step'.events[j] = "harvest"
                    /\ step'.events[k] = "increment"
                    /\ \A l \in DOMAIN step'.events :
                          step'.events[l] \in {"checkpoint", "log"} => k < l
          /\ (step'.written # <<>>) <=> (\E l \in DOMAIN step'.events : step'.events[l] = "checkpoint")
          /\ (step'.logged # <<>>) <=> (\E l \in DOMAIN step'.events : step'.events[l] = "log")
          /\ \A l \in DOMAIN step'.written :
                step'.written[l].kind = "iteration" => step'.written[l].n = iteration + 1
          /\ \A l \in DOMAIN step'.logged : step'.logged[l].iteration = iteration + 1
          /\ step'.result = "done" =>
                /\ \A l \in 1 .. 6 : \E i \in DOMAIN step'.events : step'.events[i] = PhaseOrder[l]
                /\ iteration' = iteration + 1
                /\ batch'.iteration = iteration']_vars

\* a completed step that ran every phase, checkpoint and log included
C15_Witness ==
    /\ Completed
    /\ iteration > 1
    /\ batch.iteration = iteration
    /\ SelectSeq(step.events, IsPhase) = PhaseOrder

\* C16: for every configuration and request, the batch arrays a completed train_step
\* leaves (outputs, gradients, then outputs again) are those of a single harvest
\* (outputs once, then gradients).
C16_HarvestOnceEquivalent ==
    Completed =>
        batch.arrays = HarvestOnce(batch0.arrays, cfg.outputs, cfg.gradients, request, step.outputs)

\* what the loss was given for the loss_inputs key k: a positional or a keyword argument
Received(k) == IF IsInt(k) THEN step.loss_args[k.idx + 1] ELSE step.loss_kwargs[k.name]

LayersFedToLoss ==
    {step.loss_args[i] : i \in DOMAIN step.loss_args}
        \cup {step.loss_kwargs[n] : n \in DOMAIN step.loss_kwargs}

\* C18: every output of a named sub-module that a step gives to the loss or harvests
\* into the batch was captured by the hook during that step's forward pass, never in
\* an earlier step.
C18_NoCrossStepRetention ==
    Attempted =>
        /\ \A t \in LayersFedToLoss : t.origin = "layer" => t.it = calls
        /\ \A array_key \in DOMAIN batch.arrays :
              batch.arrays[array_key].data.origin = "layer" =>
                  batch.arrays[array_key].data.it = calls

\* the gradients entries whose ArrayKey is, or is not, in the request
RequestedGradients == {i \in DOMAIN cfg.gradients : cfg.gradients[i].v \in DOMAIN request}
UnrequestedGradients == DOMAIN cfg.gradients \ RequestedGradients
\* the tensor of a gradients entry: outputs[index], or the model's attribute
TensorOf(i) ==
    IF IsInt(cfg.gradients[i].k) THEN step.outputs[cfg.gradients[i].k]
    ELSE ModelAttr(cfg.gradients[i].k.name)

\* C19: in every step that triggers backward, the tensor of every gradients entry whose
\* ArrayKey is in the request (outputs[index] for an integer key, the model's attribute
\* for a string key) has been marked to retain its gradient before backward, and the
\* tensor of no entry whose ArrayKey is absent from the request is marked.
C19_RetainBeforeBackward ==
    /\ step.retained # {} => "retain_gradients" \in Events
    /\ "backward" \in Events =>
          /\ \E i \in Positions("retain_gradients") : \A j \in Positions("backward") : i < j
          /\ \A i \in RequestedGradients : TensorOf(i) \in step.retained
          /\ \A i \in UnrequestedGradients : TensorOf(i) \notin step.retained
          /\ step.retained = {TensorOf(i) : i \in RequestedGradients}

\* backward ran with one tensor marked and the tensor of an unrequested entry unmarked
C19_Witness ==
    /\ "backward" \in Events
    /\ RequestedGradients # {}
    /\ UnrequestedGradients # {}
    /\ Cardinality(step.retained) = 1

\* the errors of a wrong configuration: model return shape, leftover loss-input keys,
\* gradients key type
ConfigurationErrors == {"UnsupportedOutput", "AssertionError", "InvalidGradientKey"}

\* C20: a train_step that aborts with a configuration error has applied no optimizer
\* update, has written nothing to the batch (arrays, loss, iteration), has left the
\* iteration counter alone and has made no checkpoint and no log record; a step that
\* completes, after an abort as well, raises the counter it finds by one.
C20_AbortAtomicity ==
    [][/\ (calls' = calls + 1 /\ step'.result \in ConfigurationErrors) =>
             /\ \A i \in DOMAIN step'.events : step'.events[i] # "optimizer_step"
             /\ model_state' = model_state
             /\ optimizer_state' = optimizer_state
             /\ batch' = batch0'
             /\ iteration' = iteration
             /\ files' = files
             /\ step'.written = <<>>
             /\ step'.logged = <<>>
       /\ (step.result \in ConfigurationErrors /\ CompletedStep) =>
             /\ iteration' = iteration + 1
             /\ batch'.iteration = iteration + 1
             /\ model_state'.updates = model_state.updates + 1]_vars

\* a step aborted by the model's return shape after a completed one: the counter stays
C20_Witness ==
    /\ step.result = "UnsupportedOutput"
    /\ calls = 2
    /\ iteration = 1
    /\ model_state.updates = 1
    /\ batch = batch0
    /\ batch0.arrays # <<>>

\* the input names the node was configured with whose ArrayKey the batch holds
ProvidedInputNames ==
    {args.inputs[i].k : i \in {j \in DOMAIN args.inputs : args.inputs[j].v \in DOMAIN batch0.arrays}}

\* C21: whenever the model is invoked, its arguments are exactly the originally
\* configured input names whose ArrayKey is in the batch, each bound to the batch data
\* of the ArrayKey it was configured with; no binding of loss_inputs alone is passed
\* and no configured input is dropped or rebound.
C21_ModelArguments ==
    "forward" \in Events =>
        /\ Keys(step.model_args) = ProvidedInputNames
        /\ \A i \in DOMAIN step.model_args :
              step.model_args[i].v = AsTensor(BatchData(Get(args.inputs, step.model_args[i].k)))

====
